---- MODULE Spec2Model ----
(***************************************************************************)
(* Model of the browser audio recorder (charantej-tpz/audio_test1).        *)
(*                                                                         *)
(* The repository holds several copies of one capture pipeline:            *)
(*   "worklet"  src/src/main.js                      (AudioWorklet)        *)
(*   "script"   src/src/main-scriptprocessor.js:1-195 (ScriptProcessor)    *)
(*   "inline"   src/src/main-scriptprocessor.js:197-413 and                *)
(*              src/unnamed/part_000:459-937 (AudioRecorder, inline)       *)
(*   "worker"   src/unnamed/part_000:1-457 with the worker of              *)
(*              src/src/main-scriptprocessor.js:429-598                    *)
(*                                                                         *)
(* A float sample is the integer m that stands for m / Den (Den a power of *)
(* two, so every sample is exactly representable as a Float32).  A PCM16   *)
(* sample is an integer in -32768..32767, a buffer is a sequence of bytes. *)
(***************************************************************************)
EXTENDS Integers, Sequences, FiniteSets, TLC

(***************************************************************************)
(* Bounds of the model.                                                    *)
(***************************************************************************)
MaxSess == 3
MaxWorkerSess == 2
MaxBlocks == 2
MaxWavBlocks == 2
MaxWavLen == 2

(***************************************************************************)
(* Program constants.                                                      *)
(***************************************************************************)
Den == 2 ^ 12
TARGET_SAMPLE_RATE == 16000
SAMPLE_RATE == 48000
SILENCE_THRESHOLD == 25
BIT_DEPTH == 16
CHANNELS == 1
FullScale == 32767

(***************************************************************************)
(* Typed-array and DataView primitives.                                    *)
(***************************************************************************)
\* a store that rounds toward minus infinity (Math.floor) instead of toward zero
Trunc_floor(num, den) == num \div den

\* Math.trunc of num/den (den > 0): the conversion an Int16Array store starts with
Trunc(num, den) == IF num >= 0 THEN num \div den ELSE -((-num) \div den)

\* ToInt16: the store into an Int16Array / DataView.setInt16 wraps modulo 2^16
ToInt16(x) == LET u == x % 65536 IN IF u >= 32768 THEN u - 65536 ELSE u

Min(a, b) == IF a < b THEN a ELSE b

RECURSIVE Gcd(_, _)
Gcd(a, b) == IF b = 0 THEN a ELSE Gcd(b, a % b)

\* DataView.setUint32(offset, v, true): four bytes, least significant first
setUint32(v) == << v % 256, (v \div 256) % 256, (v \div 65536) % 256, (v \div 16777216) % 256 >>

\* DataView.setUint16(offset, v, true)
setUint16(v) == << v % 256, (v \div 256) % 256 >>

\* DataView.setInt16(offset, v, true): two's complement, least significant byte first
setInt16(v) == LET u == v % 65536 IN << u % 256, u \div 256 >>

\* write(view, offset, text): one byte per character code
RIFF == << 82, 73, 70, 70 >>
WAVE == << 87, 65, 86, 69 >>
FMT  == << 102, 109, 116, 32 >>
DATA == << 100, 97, 116, 97 >>

RECURSIVE WriteSamples(_, _)
WriteSamples(samples, i) ==
    IF i > Len(samples) THEN << >>
    ELSE setInt16(samples[i]) \o WriteSamples(samples, i + 1)

(***************************************************************************)
(* WAV encoders: the three copies in the repository.                       *)
(***************************************************************************)
\* buildWav with the RIFF chunk size taken for the file size (44 + N instead of 36 + N)
buildWav_chunkSize(samples) ==
    RIFF \o setUint32(44 + Len(samples) * 2) \o WAVE
    \o FMT \o setUint32(16) \o setUint16(1) \o setUint16(1)
    \o setUint32(16000) \o setUint32(16000 * 2) \o setUint16(2) \o setUint16(16)
    \o DATA \o setUint32(Len(samples) * 2)
    \o WriteSamples(samples, 1)

\* buildWav writing the sample count where the byte count belongs (dataSize = N)
buildWav_dataSizeInSamples(samples) ==
    RIFF \o setUint32(36 + Len(samples) * 2) \o WAVE
    \o FMT \o setUint32(16) \o setUint16(1) \o setUint16(1)
    \o setUint32(16000) \o setUint32(16000 * 2) \o setUint16(2) \o setUint16(16)
    \o DATA \o setUint32(Len(samples))
    \o WriteSamples(samples, 1)

\* main.js buildWav (also the script-processor and MediaRecorder copies)
buildWav(samples) ==
    RIFF \o setUint32(36 + Len(samples) * 2) \o WAVE
    \o FMT \o setUint32(16) \o setUint16(1) \o setUint16(1)
    \o setUint32(16000) \o setUint32(16000 * 2) \o setUint16(2) \o setUint16(16)
    \o DATA \o setUint32(Len(samples) * 2)
    \o WriteSamples(samples, 1)

\* AudioRecorder WavEncoder.encode
WavEncoder_encode(samples) ==
    LET dataSize == Len(samples) * 2 IN
    RIFF \o setUint32(36 + dataSize) \o WAVE
    \o FMT \o setUint32(16) \o setUint16(1) \o setUint16(CHANNELS)
    \o setUint32(TARGET_SAMPLE_RATE) \o setUint32(TARGET_SAMPLE_RATE * 2)
    \o setUint16(2) \o setUint16(BIT_DEPTH)
    \o DATA \o setUint32(dataSize)
    \o WriteSamples(samples, 1)

\* the worker's buildWav writing the capture rate into the header
worker_buildWav_sourceRate(samples) ==
    LET dataSize == Len(samples) * 2 IN
    RIFF \o setUint32(36 + dataSize) \o WAVE
    \o FMT \o setUint32(16) \o setUint16(1) \o setUint16(CHANNELS)
    \o setUint32(SAMPLE_RATE) \o setUint32(SAMPLE_RATE * 2)
    \o setUint16(2) \o setUint16(BIT_DEPTH)
    \o DATA \o setUint32(dataSize)
    \o WriteSamples(samples, 1)

\* audio worker buildWav
worker_buildWav(samples) ==
    LET dataSize == Len(samples) * 2 IN
    RIFF \o setUint32(36 + dataSize) \o WAVE
    \o FMT \o setUint32(16) \o setUint16(1) \o setUint16(CHANNELS)
    \o setUint32(TARGET_SAMPLE_RATE) \o setUint32(TARGET_SAMPLE_RATE * 2)
    \o setUint16(2) \o setUint16(BIT_DEPTH)
    \o DATA \o setUint32(dataSize)
    \o WriteSamples(samples, 1)

(***************************************************************************)
(* Chunk merging.                                                          *)
(***************************************************************************)
RECURSIVE TotalLength(_, _)
TotalLength(chunkList, k) ==
    IF k > Len(chunkList) THEN 0 ELSE Len(chunkList[k]) + TotalLength(chunkList, k + 1)

\* the copy loop without `offset += c.length`
RECURSIVE MergeLoop_noAdvance(_, _, _, _)
MergeLoop_noAdvance(chunkList, k, result, offset) ==
    IF k > Len(chunkList) THEN result
    ELSE MergeLoop_noAdvance(chunkList, k + 1,
                   [i \in 1..Len(result) |->
                       IF i > offset /\ i <= offset + Len(chunkList[k])
                       THEN chunkList[k][i - offset] ELSE result[i]],
                   offset)

\* TypedArray.set(c, offset) for every chunk in turn, offset advancing by c.length
RECURSIVE MergeLoop(_, _, _, _)
MergeLoop(chunkList, k, result, offset) ==
    IF k > Len(chunkList) THEN result
    ELSE MergeLoop(chunkList, k + 1,
                   [i \in 1..Len(result) |->
                       IF i > offset /\ i <= offset + Len(chunkList[k])
                       THEN chunkList[k][i - offset] ELSE result[i]],
                   offset + Len(chunkList[k]))

\* mergeChunks whose copy loop starts one chunk late
mergeChunks_skipFirst(chunkList) ==
    LET total == TotalLength(chunkList, 1)
        result == [i \in 1..total |-> 0]
    IN MergeLoop(chunkList, 2, result, 0)

\* mergeChunks of main.js, AudioProcessor.mergeChunks and the worker's mergeChunks
mergeChunks(chunkList) ==
    LET total == TotalLength(chunkList, 1)
        result == [i \in 1..total |-> 0]
    IN MergeLoop(chunkList, 1, result, 0)

(***************************************************************************)
(* Resampling and quantization.                                            *)
(***************************************************************************)
\* ratio = rate / 16000 as the reduced fraction RatioNum / RatioDen
RatioNum(rate) == rate \div Gcd(rate, TARGET_SAMPLE_RATE)
RatioDen(rate) == TARGET_SAMPLE_RATE \div Gcd(rate, TARGET_SAMPLE_RATE)

\* Math.ceil in place of Math.floor
OutputLength_roundUp(n, rate) == (n * RatioDen(rate) + RatioNum(rate) - 1) \div RatioNum(rate)

\* Math.floor(input.length / ratio)
OutputLength(n, rate) == (n * RatioDen(rate)) \div RatioNum(rate)

\* i0 = Math.floor(i * ratio), the lower neighbour (0-based)
NeighbourLow(rate, i) == (i * RatioNum(rate)) \div RatioDen(rate)

\* the upper neighbour without the clamp to the last sample
NeighbourHigh_unclamped(n, rate, i) == NeighbourLow(rate, i) + 1

\* i1 = Math.min(i0 + 1, input.length - 1), the upper neighbour (0-based)
NeighbourHigh(n, rate, i) == Min(NeighbourLow(rate, i) + 1, n - 1)

\* the interpolation taking the sample two places up as its upper neighbour
Interpolated_secondNeighbour(input, rate, i) ==
    LET p == RatioNum(rate)
        q == RatioDen(rate)
        i0 == (i * p) \div q
        i1 == Min(i0 + 2, Len(input) - 1)
        fr == (i * p) % q
    IN input[i0 + 1] * (q - fr) + input[i1 + 1] * fr

\* the interpolation with its two weights exchanged
Interpolated_weightsSwapped(input, rate, i) ==
    LET p == RatioNum(rate)
        q == RatioDen(rate)
        i0 == (i * p) \div q
        i1 == Min(i0 + 1, Len(input) - 1)
        fr == (i * p) % q
    IN input[i0 + 1] * fr + input[i1 + 1] * (q - fr)

\* input[i0] * (1 - frac) + input[i1] * frac for output index i (0-based), as the
\* numerator of a fraction over Den * RatioDen(rate); input is 1-indexed here
Interpolated(input, rate, i) ==
    LET p == RatioNum(rate)
        q == RatioDen(rate)
        i0 == (i * p) \div q
        i1 == Min(i0 + 1, Len(input) - 1)
        fr == (i * p) % q
    IN input[i0 + 1] * (q - fr) + input[i1 + 1] * fr

\* output[i] = sample * 0x7fff stored into an Int16Array: truncate, then wrap
downsampleTo16k(input, rate) ==
    [k \in 1..OutputLength(Len(input), rate) |->
        ToInt16(Trunc(Interpolated(input, rate, k - 1) * FullScale, Den * RatioDen(rate)))]

\* AudioProcessor.downsample of the inline AudioRecorder
AudioProcessor_downsample(float32Data, sourceRate) ==
    [k \in 1..OutputLength(Len(float32Data), sourceRate) |->
        ToInt16(Trunc(Interpolated(float32Data, sourceRate, k - 1) * FullScale,
                      Den * RatioDen(sourceRate)))]

\* the worker's downsample: a Float32Array, each sample the pair <<num, den>>
worker_downsample(float32Data, sourceRate) ==
    [k \in 1..OutputLength(Len(float32Data), sourceRate) |->
        << Interpolated(float32Data, sourceRate, k - 1), Den * RatioDen(sourceRate) >>]

\* the worker's float32ToInt16: clamp to [-1, 1], scale by 0x7fff, store as Int16
float32ToInt16(float32Data) ==
    [k \in 1..Len(float32Data) |->
        LET num == float32Data[k][1]
            den == float32Data[k][2]
            sample == IF num > den THEN den ELSE IF num < -den THEN -den ELSE num
        IN ToInt16(Trunc(sample * FullScale, den))]

\* new Float32Array(data.buffer) in the worker: the samples as posted
AsFloat32(block) == [k \in 1..Len(block) |-> << block[k], Den >>]

(***************************************************************************)
(* Silence detection.                                                      *)
(***************************************************************************)
\* sum of v * v over samples[lo..hi], added up by halves (the sum of integers does
\* not depend on the order, and a frame of 512 samples needs a shallow recursion)
RECURSIVE SumRange(_, _, _)
SumRange(samples, lo, hi) ==
    IF lo > hi THEN 0
    ELSE IF lo = hi THEN samples[lo] * samples[lo]
    ELSE LET mid == (lo + hi) \div 2
         IN SumRange(samples, lo, mid) + SumRange(samples, mid + 1, hi)

\* the loop `sum += v * v` from index i (1-based) to the end
SumOfSquares(samples, i) == SumRange(samples, i, Len(samples))

\* main.js isSilent: every sample is exactly zero (true of an empty chunk)
isSilent(chunk) == \A i \in 1..Len(chunk) : chunk[i] = 0

\* the threshold test with rms <= 25 in place of rms < 25
isSilentFrame_inclusive(int16) ==
    /\ Len(int16) > 0
    /\ SumOfSquares(int16, 1) <= 25 * 25 * Len(int16)

\* main.js isSilentFrame: sqrt(sum / length) < 25; for an empty chunk the RMS is
\* NaN and the comparison is false
isSilentFrame(int16) ==
    /\ Len(int16) > 0
    /\ SumOfSquares(int16, 1) < 25 * 25 * Len(int16)

\* SilenceDetector.isAbsolutelySilent (samples.every)
isAbsolutelySilent(samples) == \A i \in 1..Len(samples) : samples[i] = 0

\* SilenceDetector.isBelowThreshold: rms < CONFIG.SILENCE_THRESHOLD
isBelowThreshold(samples) ==
    /\ Len(samples) > 0
    /\ SumOfSquares(samples, 1) < SILENCE_THRESHOLD * SILENCE_THRESHOLD * Len(samples)

\* SilenceDetector.isAbsolutelySilentFloat32 of the worker-offloaded recorder
isAbsolutelySilentFloat32(samples) == \A i \in 1..Len(samples) : samples[i] = 0

\* SilenceDetector.isBelowThresholdFloat32: rms < 0.001 on the float scale, that is
\* sum(m^2) / (Den^2 * n) < 10^-6
isBelowThresholdFloat32(samples) ==
    /\ Len(samples) > 0
    /\ SumOfSquares(samples, 1) <= (Den * Den * Len(samples) - 1) \div 1000000

(***************************************************************************)
(* MediaRecorder variant: removeSilentFrames over frames of chunkSize.     *)
(***************************************************************************)
chunkSize == 512

\* pcm16.slice(i, Math.min(i + chunkSize, pcm16.length)) for the k-th frame (k >= 1)
Frame(pcm16, k) == SubSeq(pcm16, (k - 1) * chunkSize + 1, Min(k * chunkSize, Len(pcm16)))

\* how many times the loop `for (i = 0; i < pcm16.length; i += chunkSize)` runs
FrameCount(pcm16) == (Len(pcm16) + chunkSize - 1) \div chunkSize

\* nonSilentChunks after the loop has run from frame k on
RECURSIVE NonSilentChunks(_, _)
NonSilentChunks(pcm16, k) ==
    IF k > FrameCount(pcm16) THEN << >>
    ELSE IF ~isSilentFrame(Frame(pcm16, k))
         THEN << Frame(pcm16, k) >> \o NonSilentChunks(pcm16, k + 1)
         ELSE NonSilentChunks(pcm16, k + 1)

\* removeSilentFrames: the kept frames merged (the same loop as mergeChunks)
removeSilentFrames(pcm16) ==
    LET nonSilentChunks == NonSilentChunks(pcm16, 1)
        total == TotalLength(nonSilentChunks, 1)
        result == [i \in 1..total |-> 0]
    IN MergeLoop(nonSilentChunks, 1, result, 0)

(***************************************************************************)
(* State of the recorder page.                                             *)
(*                                                                         *)
(* Every call of start() is an activation s in 1..MaxSess.  The objects an *)
(* activation creates carry its number: AudioContext s, capture node s     *)
(* (AudioWorkletNode or ScriptProcessorNode, fed by media source s) and,   *)
(* in the worker variant, Worker s.  null is 0.                            *)
(***************************************************************************)
VARIABLES
    variant,            \* which copy of the pipeline the page runs
    audioCtx,           \* audioCtx / state.audioContext: a context or null
    chunks,             \* chunks / state.recordedChunks of the main thread
    node,               \* workletNode / scriptNode / state.scriptProcessor
    sourceNode,         \* sourceNode / state.mediaSource
    wavResult,          \* wavResult / state.finalWavBuffer: bytes, or NoBuffer for null
    downloadDisabled,   \* downloadBtn.disabled
    isProcessingComplete, \* state.isProcessingComplete (worker variant)
    audioWorker,        \* state.audioWorker: a worker or null
    totalDownsampledSamples, \* diagnostics.totalDownsampledSamples (worker variant)
    pc,                 \* where each activation of start() stands
    removeSilence,      \* the checkbox value each activation captured
    hasRecordedAudio,   \* the closure flag of each activation (worker variant)
    handler,            \* node s has its onmessage / onaudioprocess handler set
    connected,          \* media source s is connected to node s
    nodeCtx,            \* the context node s was created on
    ctxState,           \* "none", "running" or "closed" for each context
    moduleLoaded,       \* addModule has completed on the context (worklet)
    sampleRate,         \* sampleRate of each context
    toWorker,           \* messages posted to each worker, not yet handled
    toMain,             \* messages each worker posted back, not yet handled
    w_recordedChunks,   \* recordedChunks of each worker
    w_sourceSampleRate, \* sourceSampleRate of each worker
    w_needsDownsampling,\* needsDownsampling of each worker
    nSess,              \* activations so far
    nBlocks,            \* capture callbacks so far
    received,           \* history: the callbacks that ran while recording, since start()
    stopped,            \* history: callbacks installed before some stop() ran
    posted,             \* history: blocks posted to each worker
    inContainer,        \* history: how many leading blocks of chunks a stop() has encoded
    processedSum,       \* history: samplesProcessed summed over each worker's 'processed'
    completeHandled,    \* history: the 'complete' of each worker has been handled
    wBlocks, wEnc, wMerged, wOut, wPc,  \* the encoder exercised on its own
    dInput,             \* a Float32 block handed to the resamplers
    dRate,              \* the source rate it was captured at
    dInline,            \* downsampleTo16k(dInput, dRate)
    dProcessor,         \* AudioProcessor.downsample(dInput, dRate)
    dWorker,            \* the chunk the worker stores for dInput
    dSilence,           \* what the float-scale silence tests returned for dInput
    dPc,                \* how far the resamplers have run
    pInput,             \* a PCM16 buffer handed to the silence tests
    pSilence,           \* what each silence test returned for it
    pTrimmed,           \* removeSilentFrames(pInput)
    pPc,                \* how far the silence tests have run
    mediaRecorder,      \* mediaRecorder: a recorder or null (MediaRecorder variant)
    audioChunks,        \* audioChunks: the data chunks pushed by ondataavailable
    stream,             \* stream: the microphone stream the global names, or null
    recorderState,      \* MediaRecorder.state of each recorder
    onstop,             \* how far each recorder's stop handler has run
    audioBlob,          \* the Blob each stop handler built
    tracksLive,         \* the tracks of each stream are live
    emitted,            \* each recorder has emitted a data chunk (the one with the header)
    nData,              \* dataavailable events so far
    fInput,             \* a Float32 block as numerators over FineDen
    fRate,              \* the source rate it was captured at
    fInline,            \* the PCM16 block of the inline path for fInput
    fWorker,            \* the PCM16 block of the worker path for fInput
    fPc                 \* how far the two paths have run

pageVars == << audioCtx, chunks, node, sourceNode, wavResult, downloadDisabled,
               isProcessingComplete, audioWorker, totalDownsampledSamples >>
actVars == << pc, removeSilence, hasRecordedAudio, nSess >>
nodeVars == << handler, connected, nodeCtx, ctxState, moduleLoaded, sampleRate >>
workerVars == << toWorker, toMain, w_recordedChunks, w_sourceSampleRate, w_needsDownsampling >>
histVars == << nBlocks, received, stopped, posted, inContainer, processedSum, completeHandled >>
wavVars == << wBlocks, wEnc, wMerged, wOut, wPc >>
dspVars == << dInput, dRate, dInline, dProcessor, dWorker, dSilence, dPc >>
pcmVars == << pInput, pSilence, pTrimmed, pPc >>
recVars == << mediaRecorder, audioChunks, stream, recorderState, onstop, audioBlob,
              tracksLive, emitted, nData >>
mainVars == << variant, pageVars, actVars, nodeVars, workerVars, histVars >>
fineVars == << fInput, fRate, fInline, fWorker, fPc >>
sideVars == << wavVars, dspVars, pcmVars, recVars, fineVars >>
vars == << mainVars, sideVars >>

null == 0
NoBuffer == << >>
Sess == 1..MaxSess
Variants == {"worklet", "script", "inline", "worker"}
MainThreadVariants == {"worklet", "script", "inline"}

\* the blocks a capture source hands over, in float samples m / Den (1/4096 is
\* PCM 7, 0.25 is PCM 8191, 0.5 is PCM 16383): all zero, quiet, loud, one shorter
\* than the 48000/16000 ratio, and one at amplitude 0.5 whose length is not a
\* multiple of the ratio
Blocks == { << 0, 0, 0 >>, << 1, 0, 1 >>, << 1024, 0, 1 >>, << 1 >>, << -2048, 1, 0, 2048 >> }

\* how many times start() may run: each run of the worker variant adds a worker
SessLimit(v) == IF v = "worker" THEN MaxWorkerSess ELSE MaxSess

\* the rate an AudioContext of each variant can come up with
Rates(v) == IF v = "worker" THEN {TARGET_SAMPLE_RATE, SAMPLE_RATE} ELSE {SAMPLE_RATE}

PageInit ==
    /\ audioCtx = null
    /\ chunks = << >>
    /\ node = null
    /\ sourceNode = null
    /\ wavResult = NoBuffer
    /\ downloadDisabled = TRUE
    /\ isProcessingComplete = FALSE
    /\ audioWorker = null
    /\ totalDownsampledSamples = 0
    /\ pc = [s \in Sess |-> "idle"]
    /\ removeSilence = [s \in Sess |-> FALSE]
    /\ hasRecordedAudio = [s \in Sess |-> FALSE]
    /\ handler = [s \in Sess |-> FALSE]
    /\ connected = [s \in Sess |-> FALSE]
    /\ nodeCtx = [s \in Sess |-> null]
    /\ ctxState = [s \in Sess |-> "none"]
    /\ moduleLoaded = [s \in Sess |-> FALSE]
    /\ sampleRate = [s \in Sess |-> 0]
    /\ toWorker = [s \in Sess |-> << >>]
    /\ toMain = [s \in Sess |-> << >>]
    /\ w_recordedChunks = [s \in Sess |-> << >>]
    /\ w_sourceSampleRate = [s \in Sess |-> TARGET_SAMPLE_RATE]
    /\ w_needsDownsampling = [s \in Sess |-> FALSE]
    /\ nSess = 0
    /\ nBlocks = 0
    /\ received = << >>
    /\ stopped = {}
    /\ posted = [s \in Sess |-> << >>]
    /\ inContainer = 0
    /\ processedSum = [s \in Sess |-> 0]
    /\ completeHandled = [s \in Sess |-> FALSE]

WavIdle ==
    /\ wBlocks = << >>
    /\ wEnc = "none"
    /\ wMerged = << >>
    /\ wOut = NoBuffer
    /\ wPc = "idle"

DspIdle ==
    /\ dInput = << >>
    /\ dRate = 0
    /\ dInline = << >>
    /\ dProcessor = << >>
    /\ dWorker = << >>
    /\ dSilence = << >>
    /\ dPc = "idle"

PcmIdle ==
    /\ pInput = << >>
    /\ pSilence = << >>
    /\ pTrimmed = << >>
    /\ pPc = "idle"

RecIdle ==
    /\ mediaRecorder = null
    /\ audioChunks = << >>
    /\ stream = null
    /\ recorderState = [s \in Sess |-> "none"]
    /\ onstop = [s \in Sess |-> "none"]
    /\ audioBlob = [s \in Sess |-> << >>]
    /\ tracksLive = [s \in Sess |-> FALSE]
    /\ emitted = [s \in Sess |-> FALSE]
    /\ nData = 0

FineIdle ==
    /\ fInput = << >>
    /\ fRate = 0
    /\ fInline = << >>
    /\ fWorker = << >>
    /\ fPc = "idle"

Init ==
    /\ variant \in Variants
    /\ PageInit
    /\ WavIdle
    /\ DspIdle
    /\ PcmIdle
    /\ RecIdle
    /\ FineIdle

(***************************************************************************)
(* Messages between the main thread and a worker.                          *)
(***************************************************************************)
InitMsg(rate) == [type |-> "init", rate |-> rate, buffer |-> << >>]
ProcessMsg(block) == [type |-> "process", rate |-> 0, buffer |-> block]
FinishMsg(rate) == [type |-> "finish", rate |-> rate, buffer |-> << >>]
ReadyMsg(needs) == [type |-> "ready", needsDownsampling |-> needs, samples |-> 0, wavBuffer |-> NoBuffer]
ProcessedMsg(n) == [type |-> "processed", needsDownsampling |-> FALSE, samples |-> n, wavBuffer |-> NoBuffer]
CompleteMsg(wav, n) == [type |-> "complete", needsDownsampling |-> FALSE, samples |-> n, wavBuffer |-> wav]

(***************************************************************************)
(* The record button: toggleRecording / RecordingController.toggle.        *)
(***************************************************************************)
\* the start branch up to its first await (getUserMedia)
StartClick ==
    /\ audioCtx = null
    /\ nSess < SessLimit(variant)
    /\ \E rs \in BOOLEAN :
        LET s == nSess + 1 IN
        /\ nSess' = s
        /\ pc' = [pc EXCEPT ![s] = "getUserMedia"]
        /\ removeSilence' = [removeSilence EXCEPT ![s] = rs]
    /\ IF variant = "worker"
       THEN /\ totalDownsampledSamples' = 0
            /\ wavResult' = NoBuffer
            /\ isProcessingComplete' = FALSE
            /\ UNCHANGED << chunks, inContainer >>
       ELSE /\ chunks' = << >>
            /\ inContainer' = 0
            /\ UNCHANGED << wavResult, isProcessingComplete, totalDownsampledSamples >>
    /\ downloadDisabled' = TRUE
    /\ received' = << >>
    /\ UNCHANGED << variant, audioCtx, node, sourceNode, audioWorker, hasRecordedAudio,
                    nodeVars, workerVars, nBlocks, stopped, posted, processedSum,
                    completeHandled, sideVars >>

\* start() creating its AudioContext before the await, so that a rejection leaves it set
MediaDenied_contextFirst(s) ==
    /\ pc[s] = "getUserMedia"
    /\ pc' = [pc EXCEPT ![s] = "failed"]
    /\ audioCtx' = s
    /\ UNCHANGED << variant, chunks, node, sourceNode, wavResult, downloadDisabled,
                    isProcessingComplete, audioWorker, totalDownsampledSamples,
                    removeSilence, hasRecordedAudio, nSess,
                    nodeVars, workerVars, histVars, sideVars >>

\* getUserMedia rejects: start() ends there
MediaDenied(s) ==
    /\ pc[s] = "getUserMedia"
    /\ pc' = [pc EXCEPT ![s] = "failed"]
    /\ UNCHANGED << variant, pageVars, removeSilence, hasRecordedAudio, nSess,
                    nodeVars, workerVars, histVars, sideVars >>

\* getUserMedia resolves: start() runs on to its next await or to its end
MediaGranted(s) ==
    /\ pc[s] = "getUserMedia"
    /\ audioCtx' = s
    /\ ctxState' = [ctxState EXCEPT ![s] = "running"]
    /\ \E r \in Rates(variant) : sampleRate' = [sampleRate EXCEPT ![s] = r]
    /\ IF variant = "worklet"
       THEN \* main.js: await audioCtx.audioWorklet.addModule(...)
            /\ pc' = [pc EXCEPT ![s] = "addModule"]
            /\ UNCHANGED << node, sourceNode, audioWorker, handler, connected, nodeCtx,
                            hasRecordedAudio, toWorker >>
       ELSE /\ pc' = [pc EXCEPT ![s] = "done"]
            /\ sourceNode' = s
            /\ node' = s
            /\ nodeCtx' = [nodeCtx EXCEPT ![s] = s]
            /\ handler' = [handler EXCEPT ![s] = TRUE]
            /\ connected' = [connected EXCEPT ![s] = TRUE]
            /\ IF variant = "worker"
               THEN /\ audioWorker' = s
                    /\ toWorker' = [toWorker EXCEPT ![s] = << InitMsg(sampleRate'[s]) >>]
                    /\ hasRecordedAudio' = [hasRecordedAudio EXCEPT ![s] = FALSE]
               ELSE UNCHANGED << audioWorker, toWorker, hasRecordedAudio >>
    /\ UNCHANGED << variant, chunks, wavResult, downloadDisabled, isProcessingComplete,
                    totalDownsampledSamples, removeSilence, nSess, moduleLoaded, toMain,
                    w_recordedChunks, w_sourceSampleRate, w_needsDownsampling, histVars,
                    sideVars >>

\* main.js: addModule rejects, start() ends with audioCtx left set
ModuleFailed(s) ==
    /\ pc[s] = "addModule"
    /\ pc' = [pc EXCEPT ![s] = "failed"]
    /\ UNCHANGED << variant, pageVars, removeSilence, hasRecordedAudio, nSess,
                    nodeVars, workerVars, histVars, sideVars >>

\* main.js: addModule resolves on context s; lines 44-60 use the global audioCtx,
\* so createMediaStreamSource throws when it is null and the AudioWorkletNode
\* constructor throws when the processor is not registered on it
ModuleAdded(s) ==
    /\ pc[s] = "addModule"
    /\ moduleLoaded' = [moduleLoaded EXCEPT ![s] = TRUE]
    /\ IF audioCtx = null
       THEN /\ pc' = [pc EXCEPT ![s] = "failed"]
            /\ UNCHANGED << sourceNode, node, nodeCtx, handler, connected >>
       ELSE IF ~moduleLoaded'[audioCtx]
       THEN /\ pc' = [pc EXCEPT ![s] = "failed"]
            /\ sourceNode' = s
            /\ UNCHANGED << node, nodeCtx, handler, connected >>
       ELSE /\ pc' = [pc EXCEPT ![s] = "done"]
            /\ sourceNode' = s
            /\ node' = s
            /\ nodeCtx' = [nodeCtx EXCEPT ![s] = audioCtx]
            /\ handler' = [handler EXCEPT ![s] = TRUE]
            /\ connected' = [connected EXCEPT ![s] = TRUE]
    /\ UNCHANGED << variant, audioCtx, chunks, wavResult, downloadDisabled,
                    isProcessingComplete, audioWorker, totalDownsampledSamples,
                    removeSilence, hasRecordedAudio,
                    nSess, ctxState, sampleRate, workerVars, histVars, sideVars >>

\* stop() returning early when nothing was recorded
Finalize_skipEmpty(v, chunkList) ==
    IF Len(chunkList) = 0 THEN NoBuffer
    ELSE IF v = "inline" THEN WavEncoder_encode(mergeChunks(chunkList))
    ELSE buildWav(mergeChunks(chunkList))

\* the container stop() builds on the main thread
Finalize(v, chunkList) ==
    IF v = "inline" THEN WavEncoder_encode(mergeChunks(chunkList))
    ELSE buildWav(mergeChunks(chunkList))

\* the stop branch: runs to its end without suspending
StopClick ==
    /\ audioCtx # null
    /\ connected' = [s \in Sess |-> IF s = sourceNode \/ s = node THEN FALSE ELSE connected[s]]
    /\ handler' = [s \in Sess |-> IF s = node THEN FALSE ELSE handler[s]]
    /\ IF variant = "worker"
       THEN /\ toWorker' = IF audioWorker # null
                           THEN [toWorker EXCEPT ![audioWorker] =
                                    Append(@, FinishMsg(sampleRate[audioCtx]))]
                           ELSE toWorker
            /\ UNCHANGED << wavResult, downloadDisabled, inContainer >>
       ELSE /\ wavResult' = Finalize(variant, chunks)
            /\ downloadDisabled' = FALSE
            /\ inContainer' = Len(chunks)
            /\ UNCHANGED toWorker
    /\ ctxState' = [ctxState EXCEPT ![audioCtx] = "closed"]
    /\ audioCtx' = null
    /\ stopped' = stopped \cup {s \in Sess : pc[s] = "done"}
    /\ UNCHANGED << variant, chunks, node, sourceNode, isProcessingComplete, audioWorker,
                    totalDownsampledSamples, actVars, nodeCtx, moduleLoaded, sampleRate,
                    toMain, w_recordedChunks, w_sourceSampleRate, w_needsDownsampling,
                    nBlocks, received, posted, processedSum, completeHandled, sideVars >>

(***************************************************************************)
(* Capture callbacks: port.onmessage / onaudioprocess of node s.           *)
(***************************************************************************)
\* node s still delivers blocks: handler set, source connected, context running
Delivers(s) ==
    /\ handler[s]
    /\ connected[s]
    /\ ctxState[nodeCtx[s]] = "running"

\* main.js:53-54 and main-scriptprocessor.js:59-60: the two early returns
PlainDrops(rs, chunkList, pcm16) ==
    \/ (rs /\ Len(chunkList) = 0 /\ isSilent(pcm16))
    \/ isSilentFrame(pcm16)

\* AudioRecorder (inline): the gate on state.recordedChunks.length === 0
InlineDrops(rs, chunkList, pcm16) ==
    /\ rs
    /\ Len(chunkList) = 0
    /\ (isAbsolutelySilent(pcm16) \/ isBelowThreshold(pcm16))

\* AudioRecorder (worker): the gate on the closure's hasRecordedAudio
WorkerDrops(rs, recorded, inputData) ==
    /\ rs
    /\ ~recorded
    /\ (isAbsolutelySilentFloat32(inputData) \/ isBelowThresholdFloat32(inputData))

\* history entry: a callback of node s that ran while recording, the block it
\* was handed, the block it looked at (PCM16 on the main thread, float in the
\* worker variant), the remove-silence option its closure holds and whether it
\* accepted the block
Callback(s, block, data, accepted) ==
    [sess |-> s, block |-> block, data |-> data, rs |-> removeSilence[s], acc |-> accepted]

\* one callback of node s with the block the capture source hands it
Deliver(s, block) ==
    /\ Delivers(s)
    /\ nBlocks < MaxBlocks
    /\ nBlocks' = nBlocks + 1
    /\ IF variant = "worker"
       THEN IF audioCtx = null \/ audioWorker = null
            THEN UNCHANGED << received, hasRecordedAudio, toWorker, posted >>
            ELSE /\ received' = Append(received, Callback(s, block, block,
                                    ~WorkerDrops(removeSilence[s], hasRecordedAudio[s], block)))
                 /\ IF WorkerDrops(removeSilence[s], hasRecordedAudio[s], block)
                    THEN UNCHANGED << hasRecordedAudio, toWorker, posted >>
                    ELSE /\ hasRecordedAudio' =
                                [hasRecordedAudio EXCEPT ![s] = removeSilence[s] \/ @]
                         /\ toWorker' = [toWorker EXCEPT ![audioWorker] =
                                            Append(@, ProcessMsg(block))]
                         /\ posted' = [posted EXCEPT ![audioWorker] = Append(@, block)]
       ELSE /\ UNCHANGED << hasRecordedAudio, toWorker, posted >>
            /\ IF audioCtx = null
               THEN UNCHANGED << received, chunks >>
               ELSE LET pcm16 == IF variant = "inline"
                                 THEN AudioProcessor_downsample(block, sampleRate[audioCtx])
                                 ELSE downsampleTo16k(block, sampleRate[audioCtx])
                        drop == IF variant = "inline"
                                THEN InlineDrops(removeSilence[s], chunks, pcm16)
                                ELSE PlainDrops(removeSilence[s], chunks, pcm16)
                    IN /\ received' = Append(received, Callback(s, block, pcm16, ~drop))
                       /\ chunks' = IF drop THEN chunks ELSE Append(chunks, pcm16)
    /\ IF variant = "worker" THEN UNCHANGED chunks ELSE TRUE
    /\ UNCHANGED << variant, audioCtx, node, sourceNode, wavResult, downloadDisabled,
                    isProcessingComplete, audioWorker, totalDownsampledSamples, pc,
                    removeSilence, nSess, nodeVars, toMain, w_recordedChunks,
                    w_sourceSampleRate, w_needsDownsampling, stopped, inContainer,
                    processedSum, completeHandled, sideVars >>

(***************************************************************************)
(* The audio worker: self.onmessage, one message at a time, in order.      *)
(***************************************************************************)
\* recordedChunks.unshift(int16Data) in place of push
PushChunk_unshift(chunkList, int16Data) == << int16Data >> \o chunkList

\* recordedChunks.push(int16Data)
PushChunk(chunkList, int16Data) == Append(chunkList, int16Data)

\* the chunk the worker stores for one 'process' message
WorkerConvert(buffer, needs, rate) ==
    float32ToInt16(IF needs THEN worker_downsample(buffer, rate) ELSE AsFloat32(buffer))

WorkerHandle(w) ==
    /\ toWorker[w] # << >>
    /\ LET m == Head(toWorker[w]) IN
       /\ toWorker' = [toWorker EXCEPT ![w] = Tail(@)]
       /\ CASE m.type = "init" ->
                 LET src == IF m.rate = 0 THEN 16000 ELSE m.rate IN
                 /\ w_recordedChunks' = [w_recordedChunks EXCEPT ![w] = << >>]
                 /\ w_sourceSampleRate' = [w_sourceSampleRate EXCEPT ![w] = src]
                 /\ w_needsDownsampling' =
                        [w_needsDownsampling EXCEPT ![w] = (src # TARGET_SAMPLE_RATE)]
                 /\ toMain' = [toMain EXCEPT ![w] =
                                  Append(@, ReadyMsg(src # TARGET_SAMPLE_RATE))]
                 /\ UNCHANGED processedSum
            [] m.type = "process" ->
                 LET int16Data == WorkerConvert(m.buffer, w_needsDownsampling[w],
                                                w_sourceSampleRate[w]) IN
                 /\ w_recordedChunks' = [w_recordedChunks EXCEPT ![w] = PushChunk(@, int16Data)]
                 /\ toMain' = [toMain EXCEPT ![w] = Append(@, ProcessedMsg(Len(int16Data)))]
                 /\ processedSum' = [processedSum EXCEPT ![w] = @ + Len(int16Data)]
                 /\ UNCHANGED << w_sourceSampleRate, w_needsDownsampling >>
            [] m.type = "finish" ->
                 LET mergedPCM == mergeChunks(w_recordedChunks[w])
                     wavBuffer == worker_buildWav(mergedPCM) IN
                 /\ toMain' = [toMain EXCEPT ![w] =
                                  Append(@, CompleteMsg(wavBuffer, Len(mergedPCM)))]
                 /\ w_recordedChunks' = [w_recordedChunks EXCEPT ![w] = << >>]
                 /\ UNCHANGED << w_sourceSampleRate, w_needsDownsampling, processedSum >>
    /\ UNCHANGED << variant, pageVars, actVars, nodeVars, nBlocks, received, stopped, posted,
                    inContainer, completeHandled, sideVars >>

\* the 'complete' case storing the container without UI.enableDownload(true)
MainHandle_noEnable(w) ==
    /\ toMain[w] # << >>
    /\ LET m == Head(toMain[w]) IN
       /\ toMain' = [toMain EXCEPT ![w] = Tail(@)]
       /\ IF m.type = "complete"
          THEN /\ wavResult' = m.wavBuffer
               /\ isProcessingComplete' = TRUE
               /\ UNCHANGED downloadDisabled
               /\ completeHandled' = [completeHandled EXCEPT ![w] = TRUE]
          ELSE UNCHANGED << wavResult, isProcessingComplete, downloadDisabled, completeHandled >>
       /\ totalDownsampledSamples' =
              IF m.type = "processed" THEN totalDownsampledSamples + m.samples
              ELSE totalDownsampledSamples
    /\ UNCHANGED << variant, audioCtx, chunks, node, sourceNode, audioWorker, actVars,
                    nodeVars, toWorker, w_recordedChunks, w_sourceSampleRate,
                    w_needsDownsampling, nBlocks, received, stopped, posted, inContainer,
                    processedSum, sideVars >>

\* state.audioWorker.onmessage of the worker created by activation w
MainHandle(w) ==
    /\ toMain[w] # << >>
    /\ LET m == Head(toMain[w]) IN
       /\ toMain' = [toMain EXCEPT ![w] = Tail(@)]
       /\ IF m.type = "complete"
          THEN /\ wavResult' = m.wavBuffer
               /\ isProcessingComplete' = TRUE
               /\ downloadDisabled' = FALSE
               /\ completeHandled' = [completeHandled EXCEPT ![w] = TRUE]
          ELSE UNCHANGED << wavResult, isProcessingComplete, downloadDisabled, completeHandled >>
       /\ totalDownsampledSamples' =
              IF m.type = "processed" THEN totalDownsampledSamples + m.samples
              ELSE totalDownsampledSamples
    /\ UNCHANGED << variant, audioCtx, chunks, node, sourceNode, audioWorker, actVars,
                    nodeVars, toWorker, w_recordedChunks, w_sourceSampleRate,
                    w_needsDownsampling, nBlocks, received, stopped, posted, inContainer,
                    processedSum, sideVars >>

Next ==
    \/ StartClick
    \/ StopClick
    \/ \E s \in Sess : MediaGranted(s)
    \/ \E s \in Sess : MediaDenied(s)
    \/ \E s \in Sess : ModuleAdded(s)
    \/ \E s \in Sess : ModuleFailed(s)
    \/ \E s \in Sess, block \in Blocks : Deliver(s, block)
    \/ \E w \in Sess : WorkerHandle(w)
    \/ \E w \in Sess : MainHandle(w)

Spec == Init /\ [][Next]_vars

(***************************************************************************)
(* The worker-offloaded recorder on its own, with message delivery: a      *)
(* message posted to a worker is eventually handled by its onmessage, and  *)
(* so is a message a worker posted to the main thread.                     *)
(***************************************************************************)
\* one loud block: what a block holds does not decide whether messages arrive
LiveBlocks == { << 1024, 0, 1 >> }

InitLive ==
    /\ variant = "worker"
    /\ PageInit
    /\ WavIdle
    /\ DspIdle
    /\ PcmIdle
    /\ RecIdle
    /\ FineIdle

NextLive ==
    \/ StartClick
    \/ StopClick
    \/ \E s \in Sess : MediaGranted(s)
    \/ \E s \in Sess : MediaDenied(s)
    \/ \E s \in Sess, block \in LiveBlocks : Deliver(s, block)
    \/ \E w \in Sess : WorkerHandle(w)
    \/ \E w \in Sess : MainHandle(w)

\* the workers start() can create
Workers == 1..MaxWorkerSess

Delivery == \A w \in Workers : WF_vars(WorkerHandle(w)) /\ WF_vars(MainHandle(w))

SpecLive == InitLive /\ [][NextLive]_vars /\ Delivery

(***************************************************************************)
(* The encoders on their own: a list of PCM16 blocks is merged and then    *)
(* encoded by one of the three copies.                                     *)
(***************************************************************************)
PcmSamples == {-32768, -1, 256, 32767}
PcmBlocks == UNION {[1..n -> PcmSamples] : n \in 0..MaxWavLen}
PcmBlockLists == UNION {[1..n -> PcmBlocks] : n \in 0..MaxWavBlocks}
Encoders == {"buildWav", "WavEncoder.encode", "worker.buildWav"}

Encode(enc, samples) ==
    CASE enc = "buildWav" -> buildWav(samples)
      [] enc = "WavEncoder.encode" -> WavEncoder_encode(samples)
      [] enc = "worker.buildWav" -> worker_buildWav(samples)

InitWav ==
    /\ variant = "none"
    /\ PageInit
    /\ wBlocks \in PcmBlockLists
    /\ wEnc \in Encoders
    /\ wMerged = << >>
    /\ wOut = NoBuffer
    /\ wPc = "blocks"
    /\ DspIdle
    /\ PcmIdle
    /\ RecIdle
    /\ FineIdle

WavMerge ==
    /\ wPc = "blocks"
    /\ wMerged' = mergeChunks(wBlocks)
    /\ wPc' = "merged"
    /\ UNCHANGED << mainVars, dspVars, pcmVars, recVars, fineVars, wBlocks, wEnc, wOut >>

WavEncode ==
    /\ wPc = "merged"
    /\ wOut' = Encode(wEnc, wMerged)
    /\ wPc' = "encoded"
    /\ UNCHANGED << mainVars, dspVars, pcmVars, recVars, fineVars, wBlocks, wEnc, wMerged >>

NextWav == WavMerge \/ WavEncode

SpecWav == InitWav /\ [][NextWav]_vars

(***************************************************************************)
(* The resamplers and quantizers on their own: one Float32 block at one    *)
(* source rate goes through downsampleTo16k, AudioProcessor.downsample and *)
(* the worker's 'process' path.                                            *)
(***************************************************************************)
MaxDspLen == 3

\* float samples m / Den: -1.5, -1, -1/4096, 0, 1/4096, 4/4096 (between 25/32767
\* and 0.001), 0.5, 1, 1.5
FloatSamples == {-6144, -4096, -1, 0, 1, 4, 2048, 4096, 6144}
\* two blocks long enough for several output samples at ratio 3
LongBlocks == { << 2048, 4096, -1, -2048, 1, 0, 4 >>, << -4096, 0, 0, 4096, 0, 0 >> }
FloatBlocks == UNION {[1..n -> FloatSamples] : n \in 0..MaxDspLen} \cup LongBlocks

\* rates whose ratio to 16000 is an integer or a multiple of 1/2: every product
\* and sum of the interpolation is exact in floating point
ExactRates == {8000, 16000, 24000, 32000, 48000, 96000}
\* rates whose ratio is not exactly representable; used with all-zero blocks,
\* for which the interpolation is exact whatever the weights
OtherRates == {11025, 22050, 44100}
DspRates == ExactRates \cup OtherRates

InitDsp ==
    /\ variant = "none"
    /\ PageInit
    /\ WavIdle
    /\ PcmIdle
    /\ RecIdle
    /\ FineIdle
    /\ dInput \in FloatBlocks
    /\ dRate \in DspRates
    /\ (dRate \in ExactRates \/ \A i \in 1..Len(dInput) : dInput[i] = 0)
    /\ dInline = << >>
    /\ dProcessor = << >>
    /\ dWorker = << >>
    /\ dSilence = << >>
    /\ dPc = "input"

\* the main-thread resamplers, which interpolate and quantize in one step
DspInline ==
    /\ dPc = "input"
    /\ dInline' = downsampleTo16k(dInput, dRate)
    /\ dProcessor' = AudioProcessor_downsample(dInput, dRate)
    /\ dPc' = "inline"
    /\ UNCHANGED << mainVars, wavVars, pcmVars, recVars, fineVars, dInput, dRate, dWorker, dSilence >>

\* the worker after 'init' with this rate, handling one 'process' message
DspWorker ==
    /\ dPc = "inline"
    /\ dWorker' = WorkerConvert(dInput, dRate # TARGET_SAMPLE_RATE, dRate)
    /\ dPc' = "worker"
    /\ UNCHANGED << mainVars, wavVars, pcmVars, recVars, fineVars, dInput, dRate, dInline, dProcessor,
                    dSilence >>

\* the two tests the worker-offloaded recorder applies to the raw float block
DspSilence ==
    /\ dPc = "worker"
    /\ dSilence' = [isAbsolutelySilentFloat32 |-> isAbsolutelySilentFloat32(dInput),
                    isBelowThresholdFloat32 |-> isBelowThresholdFloat32(dInput)]
    /\ dPc' = "tested"
    /\ UNCHANGED << mainVars, wavVars, pcmVars, recVars, fineVars, dInput, dRate, dInline, dProcessor,
                    dWorker >>

NextDsp == DspInline \/ DspWorker \/ DspSilence

SpecDsp == InitDsp /\ [][NextDsp]_vars

(***************************************************************************)
(* The inline path and the worker path on Float32 samples at full          *)
(* precision.  A sample is the integer k that stands for k / FineDen, with *)
(* |k| <= FineDen: in [-1, 1] and exactly a Float32.  At the rates used    *)
(* here the weights are 0, 1/2 and 1, so the interpolation in doubles is   *)
(* exact: numerator Interpolated over FineDen * RatioDen.  The main-thread *)
(* resamplers multiply that double by 0x7fff; the worker's downsample      *)
(* first stores it into a Float32Array, which rounds it to 24 significant  *)
(* bits.                                                                   *)
(***************************************************************************)
MaxFineLen == 3
FineDen == 2 ^ 24

\* 0, 513 / 2^24, 0.5, 1 and the negatives of 513 / 2^24 and 1
FineSamples == {-16777216, -513, 0, 513, 8388608, 16777216}
FineBlocks == UNION {[1..n -> FineSamples] : n \in 0..MaxFineLen}

\* ratios 0.5, 1, 1.5 and 3
FineRates == {8000, 16000, 24000, 48000}

\* the power of two by which numerators of magnitude a are spaced in a Float32
RECURSIVE Spacing(_)
Spacing(a) == IF a <= 2 ^ 24 THEN 1 ELSE 2 * Spacing((a + 1) \div 2)

\* the store into a Float32Array: round to nearest, ties to even (numerators
\* over a power of two)
Float32Store(num) ==
    LET a == IF num >= 0 THEN num ELSE -num
        unit == Spacing(a)
        q == a \div unit
        rem == a % unit
        up == 2 * rem > unit \/ (2 * rem = unit /\ q % 2 = 1)
        r == (IF up THEN q + 1 ELSE q) * unit
    IN IF num >= 0 THEN r ELSE -r

\* Math.trunc(num / den * 0x7fff) for den a multiple of 2^15, without the product
\* num * 32767: num * (2^15 - 1) / den = (num - num / 2^15) / (den / 2^15)
ScaleTrunc(num, den) ==
    LET a == IF num >= 0 THEN num ELSE -num
        t == (a - (a + 32767) \div 32768) \div (den \div 32768)
    IN IF num >= 0 THEN t ELSE -t

\* downsampleTo16k / AudioProcessor.downsample: output[i] = sample * 0x7fff
FineInlineBlock(input, rate) ==
    [k \in 1..OutputLength(Len(input), rate) |->
        ToInt16(ScaleTrunc(Interpolated(input, rate, k - 1), FineDen * RatioDen(rate)))]

\* the worker's downsample: the samples of its Float32Array output
FineWorkerDownsample(float32Data, sourceRate) ==
    [k \in 1..OutputLength(Len(float32Data), sourceRate) |->
        Float32Store(Interpolated(float32Data, sourceRate, k - 1))]

\* the worker's 'process' case: downsample if needed, then float32ToInt16
FineWorkerBlock(buffer, rate) ==
    LET needs == rate # TARGET_SAMPLE_RATE
        den == IF needs THEN FineDen * RatioDen(rate) ELSE FineDen
        float32Data == IF needs THEN FineWorkerDownsample(buffer, rate) ELSE buffer
    IN [k \in 1..Len(float32Data) |->
          LET num == float32Data[k]
              sample == IF num > den THEN den ELSE IF num < -den THEN -den ELSE num
          IN ToInt16(ScaleTrunc(sample, den))]

InitFine ==
    /\ variant = "none"
    /\ PageInit
    /\ WavIdle
    /\ DspIdle
    /\ PcmIdle
    /\ RecIdle
    /\ fInput \in FineBlocks
    /\ fRate \in FineRates
    /\ fInline = << >>
    /\ fWorker = << >>
    /\ fPc = "input"

\* the main-thread resamplers on the block
FineInline ==
    /\ fPc = "input"
    /\ fInline' = FineInlineBlock(fInput, fRate)
    /\ fPc' = "inline"
    /\ UNCHANGED << mainVars, wavVars, dspVars, pcmVars, recVars, fInput, fRate, fWorker >>

\* the worker after 'init' with this rate, handling the block as one 'process'
FineWorker ==
    /\ fPc = "inline"
    /\ fWorker' = FineWorkerBlock(fInput, fRate)
    /\ fPc' = "worker"
    /\ UNCHANGED << mainVars, wavVars, dspVars, pcmVars, recVars, fInput, fRate, fInline >>

NextFine == FineInline \/ FineWorker

SpecFine == InitFine /\ [][NextFine]_vars

(***************************************************************************)
(* The silence tests and removeSilentFrames on their own, on one PCM16     *)
(* buffer: a short block around the threshold, or a buffer of whole frames *)
(* of one level each with an optional short last frame.                    *)
(***************************************************************************)
MaxPcmLen == 3
MaxFrames == 2

SilSamples == {-26, -25, -24, 0, 24, 25, 26}
SilBlocks == UNION {[1..n -> SilSamples] : n \in 0..MaxPcmLen}

\* the sample value a whole frame holds: zero, below, at and above RMS 25
FrameLevels == {0, 24, 25, 100}
LevelLists == UNION {[1..n -> FrameLevels] : n \in 0..MaxFrames}
\* the length of the last, short frame and its sample value
Tails == {<< 0, 0 >>, << 1, 0 >>, << 1, 100 >>}

FrameBuffer(levels, tail) ==
    [i \in 1..(Len(levels) * chunkSize + tail[1]) |->
        IF i <= Len(levels) * chunkSize THEN levels[(i - 1) \div chunkSize + 1] ELSE tail[2]]

FrameBuffers == {FrameBuffer(levels, tail) : levels \in LevelLists, tail \in Tails}

InitPcm ==
    /\ variant = "none"
    /\ PageInit
    /\ WavIdle
    /\ DspIdle
    /\ RecIdle
    /\ FineIdle
    /\ pInput \in SilBlocks \cup FrameBuffers
    /\ pSilence = << >>
    /\ pTrimmed = << >>
    /\ pPc = "input"

\* the four PCM16 silence tests applied to the buffer; rmsDivisor is the divisor
\* of `sum / int16.length` and `sumOfSquares / samples.length`
PcmSilence ==
    /\ pPc = "input"
    /\ pSilence' = [isSilent |-> isSilent(pInput),
                    isSilentFrame |-> isSilentFrame(pInput),
                    isAbsolutelySilent |-> isAbsolutelySilent(pInput),
                    isBelowThreshold |-> isBelowThreshold(pInput),
                    rmsDivisor |-> Len(pInput)]
    /\ pPc' = "tested"
    /\ UNCHANGED << mainVars, wavVars, dspVars, recVars, fineVars, pInput, pTrimmed >>

\* convertToWav16k with removeSilence checked: finalPcm = removeSilentFrames(pcm16)
PcmRemove ==
    /\ pPc = "tested"
    /\ pTrimmed' = removeSilentFrames(pInput)
    /\ pPc' = "trimmed"
    /\ UNCHANGED << mainVars, wavVars, dspVars, recVars, fineVars, pInput, pSilence >>

NextPcm == PcmSilence \/ PcmRemove

SpecPcm == InitPcm /\ [][NextPcm]_vars

(***************************************************************************)
(* MediaRecorder variant (src/unnamed/part_001): toggleRecording, the      *)
(* recorder's dataavailable and stop events, convertToWav16k.              *)
(*                                                                         *)
(* A data chunk is the float audio it encodes, at the 48000 Hz the         *)
(* decoding AudioContext has; the first non-empty chunk a recorder emits   *)
(* carries the container header.                                           *)
(***************************************************************************)
MaxRecSess == 2
MaxData == 2

\* the audio of one data chunk: loud or all zero
RecBlocks == { << 1024, 0, 1 >>, << 0, 0, 0 >> }

\* what the MediaRecorder actions leave alone outside recVars
recOther == << variant, audioCtx, chunks, node, sourceNode, isProcessingComplete,
               audioWorker, totalDownsampledSamples, removeSilence, hasRecordedAudio, nodeVars, workerVars,
               histVars, wavVars, dspVars, pcmVars, fineVars >>

InitRec ==
    /\ variant = "mediarecorder"
    /\ PageInit
    /\ WavIdle
    /\ DspIdle
    /\ PcmIdle
    /\ RecIdle
    /\ FineIdle

\* the branch toggleRecording takes: start when there is no active recorder
RecIdleOrInactive ==
    IF mediaRecorder = null THEN TRUE ELSE recorderState[mediaRecorder] = "inactive"

\* the start branch up to `await getUserMedia`
RecStartClick ==
    /\ RecIdleOrInactive
    /\ nSess < MaxRecSess
    /\ nSess' = nSess + 1
    /\ pc' = [pc EXCEPT ![nSess + 1] = "getUserMedia"]
    /\ audioChunks' = << >>
    /\ downloadDisabled' = TRUE
    /\ UNCHANGED << recOther, wavResult, mediaRecorder, stream, recorderState, onstop,
                    audioBlob, tracksLive, emitted, nData >>

\* getUserMedia rejects
RecMediaDenied(s) ==
    /\ pc[s] = "getUserMedia"
    /\ pc' = [pc EXCEPT ![s] = "failed"]
    /\ UNCHANGED << recOther, recVars, wavResult, downloadDisabled, nSess >>

\* getUserMedia resolves: the recorder is created on the stream and started
RecMediaGranted(s) ==
    /\ pc[s] = "getUserMedia"
    /\ pc' = [pc EXCEPT ![s] = "done"]
    /\ stream' = s
    /\ tracksLive' = [tracksLive EXCEPT ![s] = TRUE]
    /\ mediaRecorder' = s
    /\ recorderState' = [recorderState EXCEPT ![s] = "recording"]
    /\ UNCHANGED << recOther, wavResult, downloadDisabled, nSess, audioChunks, onstop,
                    audioBlob, emitted, nData >>

\* the chunk ondataavailable pushes for recorder s
DataChunk(s, block) == [sess |-> s, hdr |-> ~emitted[s], data |-> block]

\* ondataavailable of recorder s every 100 ms while it records (event.data.size > 0)
RecData(s, block) ==
    /\ recorderState[s] = "recording"
    /\ nData < MaxData
    /\ nData' = nData + 1
    /\ audioChunks' = Append(audioChunks, DataChunk(s, block))
    /\ emitted' = [emitted EXCEPT ![s] = TRUE]
    /\ UNCHANGED << recOther, wavResult, downloadDisabled, pc, nSess, mediaRecorder, stream,
                    recorderState, onstop, audioBlob, tracksLive >>

\* the stop branch: mediaRecorder.stop() queues the recorder's last events
RecStopClick ==
    /\ ~RecIdleOrInactive
    /\ recorderState' = [recorderState EXCEPT ![mediaRecorder] = "inactive"]
    /\ onstop' = [onstop EXCEPT ![mediaRecorder] = "queued"]
    /\ mediaRecorder' = null
    /\ UNCHANGED << recOther, wavResult, downloadDisabled, pc, nSess, audioChunks, stream,
                    audioBlob, tracksLive, emitted, nData >>

\* the task stop() queued: a last dataavailable (block is << >> when its size is 0),
\* then onstop up to its first await, where the Blob is built from audioChunks
RecStopEvent(s, block) ==
    /\ onstop[s] = "queued"
    /\ LET pushed == IF block = << >> THEN audioChunks
                     ELSE Append(audioChunks, DataChunk(s, block))
       IN /\ audioChunks' = pushed
          /\ audioBlob' = [audioBlob EXCEPT ![s] = pushed]
    /\ emitted' = [emitted EXCEPT ![s] = @ \/ block # << >>]
    /\ onstop' = [onstop EXCEPT ![s] = "converting"]
    /\ UNCHANGED << recOther, wavResult, downloadDisabled, pc, nSess, mediaRecorder, stream,
                    recorderState, tracksLive, nData >>

\* the audio of the chunks from the k-th on, up to the next chunk with a header
RECURSIVE SegmentData(_, _)
SegmentData(blob, k) ==
    IF k > Len(blob) \/ (k > 1 /\ blob[k].hdr) THEN << >>
    ELSE blob[k].data \o SegmentData(blob, k + 1)

\* the audio of all chunks
RECURSIVE AllData(_, _)
AllData(blob, k) ==
    IF k > Len(blob) THEN << >> ELSE blob[k].data \o AllData(blob, k + 1)

\* decodeAudioData: rejects an empty Blob and one that does not start with a
\* header; what a decoder makes of a second recording appended to the first is
\* not defined, it may stop at the second header or decode on
Decodings(blob) ==
    IF blob = << >> \/ ~blob[1].hdr THEN {}
    ELSE {SegmentData(blob, 1), AllData(blob, 1)}

\* convertToWav16k once the audio is decoded
ConvertDecoded(float32, rs) ==
    LET pcm16 == downsampleTo16k(float32, 48000)
        finalPcm == IF rs THEN removeSilentFrames(pcm16) ELSE pcm16
    IN buildWav(finalPcm)

\* what `await convertToWav16k(audioBlob)` yields: null when decodeAudioData rejects
RecResult(blob, float32, rs) ==
    IF Decodings(blob) = {} THEN NoBuffer ELSE ConvertDecoded(float32, rs)

\* stream.getTracks().forEach(track => track.stop()) on the stream x the global
\* names: a recorder still recording on x stops by itself
RecorderAfterTracksStop(x) ==
    [s \in Sess |-> IF s = x /\ recorderState[s] = "recording" THEN "inactive"
                    ELSE recorderState[s]]

\* the rest of onstop: the conversion is done, wavResult is assigned, download is
\* enabled and the tracks of `stream` are stopped; rs is the checkbox at that time
RecConverted(s, rs) ==
    /\ onstop[s] = "converting"
    /\ \E float32 \in (IF Decodings(audioBlob[s]) = {} THEN {<< >>} ELSE Decodings(audioBlob[s])) :
          wavResult' = RecResult(audioBlob[s], float32, rs)
    /\ downloadDisabled' = FALSE
    /\ tracksLive' = [tracksLive EXCEPT ![stream] = FALSE]
    /\ recorderState' = RecorderAfterTracksStop(stream)
    /\ onstop' = [x \in Sess |->
                     IF x = s THEN "done"
                     ELSE IF x = stream /\ recorderState[x] = "recording" THEN "queued"
                     ELSE onstop[x]]
    /\ UNCHANGED << recOther, pc, nSess, mediaRecorder, audioChunks, stream, audioBlob,
                    emitted, nData >>

NextRec ==
    \/ RecStartClick
    \/ RecStopClick
    \/ \E s \in Sess : RecMediaGranted(s)
    \/ \E s \in Sess : RecMediaDenied(s)
    \/ \E s \in Sess, block \in RecBlocks : RecData(s, block)
    \/ \E s \in Sess, block \in RecBlocks \cup {<< >>} : RecStopEvent(s, block)
    \/ \E s \in Sess, rs \in BOOLEAN : RecConverted(s, rs)

SpecRec == InitRec /\ [][NextRec]_vars

(***************************************************************************)
(* Reading a container back (DataView getters, little-endian).             *)
(***************************************************************************)
getUint16(buf, off) == buf[off + 1] + 256 * buf[off + 2]
getUint32(buf, off) ==
    buf[off + 1] + 256 * buf[off + 2] + 65536 * buf[off + 3] + 16777216 * buf[off + 4]
getInt16(buf, off) ==
    LET u == getUint16(buf, off) IN IF u >= 32768 THEN u - 65536 ELSE u

\* the data of the callbacks in the history, in arrival order
ReceivedData == [i \in 1..Len(received) |-> received[i].data]
Accepted(e) == e.acc
AcceptedData ==
    LET a == SelectSeq(received, Accepted) IN [i \in 1..Len(a) |-> a[i].data]
AllRemoveSilence == \A i \in 1..Len(received) : received[i].rs
NoneRemoveSilence == \A i \in 1..Len(received) : ~received[i].rs

(***************************************************************************)
(* C1: in the worklet and plain script-processor pipelines with            *)
(* removeSilence on, once a non-silent block has been appended to chunks   *)
(* every block received later in the session is appended too, silent or    *)
(* not.                                                                    *)
(***************************************************************************)
C1_GateStaysOpen ==
    (variant \in {"worklet", "script"} /\ AllRemoveSilence) =>
        \A i, j \in 1..Len(received) :
            (i < j /\ received[i].acc /\ ~isSilent(received[i].data)
                   /\ ~isSilentFrame(received[i].data))
            => received[j].acc

(***************************************************************************)
(* C2: in the worklet and plain script-processor pipelines with            *)
(* removeSilence off, chunks is the sequence of the converted blocks of    *)
(* all blocks received while recording, in arrival order, none dropped.    *)
(***************************************************************************)
C2_NothingDropped ==
    (variant \in {"worklet", "script"} /\ NoneRemoveSilence) => chunks = ReceivedData

(***************************************************************************)
(* C3: in the AudioRecorder variants the accepted blocks are the received  *)
(* blocks minus the maximal prefix the variant's SilenceDetector calls     *)
(* silent when the option is on, and all received blocks when it is off;   *)
(* the gate does not re-open once a block has been accepted.               *)
(***************************************************************************)
DetectorSilent(data) ==
    IF variant = "worker"
    THEN isAbsolutelySilentFloat32(data) \/ isBelowThresholdFloat32(data)
    ELSE isAbsolutelySilent(data) \/ isBelowThreshold(data)

C3_LeadingSilenceOnly ==
    variant \in {"inline", "worker"} =>
        /\ AllRemoveSilence =>
              \A i \in 1..Len(received) :
                  received[i].acc <=> (\E j \in 1..i : ~DetectorSilent(received[j].data))
        /\ NoneRemoveSilence => \A i \in 1..Len(received) : received[i].acc
        /\ variant = "inline" => chunks = AcceptedData

(***************************************************************************)
(* C5: once stop() has run, no block delivered by a callback that was      *)
(* installed before that stop() is accepted again (appended to chunks or   *)
(* posted to a worker), in particular not during a later session.          *)
(***************************************************************************)
C5_NoLateBlocks ==
    [][ \A s \in stopped :
            ~ /\ Len(received') = Len(received) + 1
              /\ received'[Len(received')].sess = s
              /\ received'[Len(received')].acc ]_vars

(***************************************************************************)
(* C6: under every interleaving of clicks and callbacks, at most one       *)
(* installed capture callback can append to the accumulator.               *)
(***************************************************************************)
C6_OneProducer ==
    audioCtx # null => Cardinality({s \in Sess : Delivers(s)}) <= 1

(***************************************************************************)
(* C4: in the worker variant every 'process' message posted to a worker    *)
(* is handled before the 'finish' posted after it, in posting order: the   *)
(* container in 'complete' holds the converted blocks of all blocks posted *)
(* to that worker, in order.                                               *)
(***************************************************************************)
RECURSIVE Concat(_)
Concat(blocks) == IF blocks = << >> THEN << >> ELSE Head(blocks) \o Concat(Tail(blocks))

\* the samples of a container, read back from its data chunk
DataSamples(buf) ==
    [i \in 1..(getUint32(buf, 40) \div 2) |-> getInt16(buf, 44 + 2 * (i - 1))]

ConvertedPosted(w) ==
    [k \in 1..Len(posted[w]) |->
        WorkerConvert(posted[w][k], w_needsDownsampling[w], w_sourceSampleRate[w])]

EmptyContainer(buf) ==
    /\ Len(buf) = 44
    /\ getUint32(buf, 40) = 0
    /\ getUint32(buf, 4) = 36

C7_EmptyStop ==
    [][ /\ (/\ variant \in MainThreadVariants
            /\ audioCtx # null /\ audioCtx' = null
            /\ TotalLength(chunks, 1) = 0)
           => (EmptyContainer(wavResult') /\ ~downloadDisabled')
        /\ \A w \in Sess :
            /\ (/\ toWorker[w] # << >>
                /\ Head(toWorker[w]).type = "finish"
                /\ toWorker'[w] = Tail(toWorker[w])
                /\ TotalLength(w_recordedChunks[w], 1) = 0)
               => (/\ toMain'[w][Len(toMain'[w])].type = "complete"
                   /\ EmptyContainer(toMain'[w][Len(toMain'[w])].wavBuffer))
            /\ (/\ toMain[w] # << >>
                /\ Head(toMain[w]).type = "complete"
                /\ toMain'[w] = Tail(toMain[w]))
               => (wavResult' = Head(toMain[w]).wavBuffer /\ ~downloadDisabled') ]_vars

C7_Witness ==
    /\ variant \in MainThreadVariants
    /\ audioCtx = null
    /\ Len(received) > 0
    /\ chunks = << >>
    /\ Len(wavResult) = 44
    /\ ~downloadDisabled

(***************************************************************************)
(* C8: for a PCM16 buffer of n samples each encoder returns 44 + 2n bytes  *)
(* with chunkSize 36 + 2n at offset 4, dataSize 2n at offset 40 and sample *)
(* i little-endian at offset 44 + 2i.                                      *)
(***************************************************************************)
C8_WavLayout ==
    wPc = "encoded" =>
        LET n == Len(wMerged) IN
        /\ Len(wOut) = 44 + 2 * n
        /\ getUint32(wOut, 4) = 36 + 2 * n
        /\ getUint32(wOut, 40) = 2 * n
        /\ \A i \in 0..(n - 1) :
              /\ wOut[44 + 2 * i + 1] = wMerged[i + 1] % 256
              /\ wOut[44 + 2 * i + 2] = (wMerged[i + 1] % 65536) \div 256

C8_Witness ==
    /\ wPc = "encoded"
    /\ Len(wMerged) = 3
    /\ wMerged[1] = -32768
    /\ wMerged[3] = 256

(***************************************************************************)
(* C9: every container any variant produces has audioFormat 1, one         *)
(* channel, sampleRate 16000, blockAlign 2, byteRate 32000 and 16 bits per *)
(* sample, whatever the capture rate and whatever sampleRate the 'finish'  *)
(* message carries.                                                        *)
(***************************************************************************)
FormatFields(buf) ==
    /\ getUint16(buf, 20) = 1
    /\ getUint16(buf, 22) = 1
    /\ getUint32(buf, 24) = 16000
    /\ getUint16(buf, 32) = (getUint16(buf, 22) * getUint16(buf, 34)) \div 8
    /\ getUint16(buf, 32) = 2
    /\ getUint32(buf, 28) = getUint32(buf, 24) * getUint16(buf, 32)
    /\ getUint32(buf, 28) = 32000
    /\ getUint16(buf, 34) = 16

C9_FormatFields ==
    /\ wavResult # NoBuffer => FormatFields(wavResult)
    /\ \A w \in Sess : \A i \in 1..Len(toMain[w]) :
           toMain[w][i].type = "complete" => FormatFields(toMain[w][i].wavBuffer)

C9_Witness ==
    /\ variant = "worker"
    /\ nSess = 1
    /\ sampleRate[1] = SAMPLE_RATE
    /\ isProcessingComplete
    /\ Len(wavResult) > 44

(***************************************************************************)
(* C10: round trip: the dataSize/2 little-endian signed 16-bit values read *)
(* from offset 44 of encode(mergeChunks(blocks)) are the concatenation of  *)
(* the blocks, and the header reads back as 16000 Hz, 1 channel, 16 bits,  *)
(* dataSize twice the total sample count.                                  *)
(***************************************************************************)
C10_RoundTrip ==
    wPc = "encoded" =>
        /\ DataSamples(wOut) = Concat(wBlocks)
        /\ getUint32(wOut, 24) = 16000
        /\ getUint16(wOut, 22) = 1
        /\ getUint16(wOut, 34) = 16
        /\ getUint32(wOut, 40) = 2 * Len(Concat(wBlocks))

C10_Witness ==
    /\ wPc = "encoded"
    /\ Len(wBlocks) = 2
    /\ Len(wBlocks[1]) = 2
    /\ Len(wBlocks[2]) = 1
    /\ wBlocks[1][1] = -1
    /\ wBlocks[2][1] = 32767

C13_IdentityAt16k ==
    (dPc = "worker" /\ dRate = 16000) =>
        /\ Len(dInline) = Len(dInput)
        /\ Len(dProcessor) = Len(dInput)
        /\ \A i \in 1..Len(dInput) :
              /\ dInline[i] = ToInt16(Trunc(dInput[i] * FullScale, Den))
              /\ dProcessor[i] = ToInt16(Trunc(dInput[i] * FullScale, Den))
        /\ Len(worker_downsample(dInput, 16000)) = Len(dInput)
        /\ \A i \in 1..Len(dInput) :
              worker_downsample(dInput, 16000)[i][1] * Den
                  = dInput[i] * worker_downsample(dInput, 16000)[i][2]
        /\ dWorker = float32ToInt16(worker_downsample(dInput, 16000))

C13_Witness ==
    /\ dPc = "worker"
    /\ dRate = 16000
    /\ dInput = << 2048, -1, 4096 >>
    /\ dInline = << 16383, -7, 32767 >>
    /\ dWorker = << 16383, -7, 32767 >>

(***************************************************************************)
(* C14: no variant clamps: for an interpolated sample s, also outside      *)
(* [-1, 1], the stored value is trunc(s * 32767) wrapped modulo 2^16, in   *)
(* downsampleTo16k, AudioProcessor.downsample and the worker's             *)
(* float32ToInt16 alike.                                                   *)
(***************************************************************************)
C14_NoClamp ==
    dPc = "worker" =>
        \A i \in 1..Len(dInline) :
            LET wrapped == ToInt16(Trunc(Interpolated(dInput, dRate, i - 1) * FullScale,
                                         Den * RatioDen(dRate)))
            IN /\ dInline[i] = wrapped
               /\ dProcessor[i] = wrapped
               /\ dWorker[i] = wrapped

(***************************************************************************)
(* C19: for an interpolated sample s in [-1, 1] the stored value is        *)
(* s * 32767 truncated toward zero: it lies in -32767..32767 and has the   *)
(* sign of s or is 0.                                                      *)
(***************************************************************************)
TruncatedTowardZero(out, num, den) ==
    /\ out >= -32767 /\ out <= 32767
    /\ (num >= 0) => (out >= 0 /\ out * den <= num * 32767 /\ num * 32767 < (out + 1) * den)
    /\ (num <= 0) => (out <= 0 /\ (-out) * den <= (-num) * 32767
                                /\ (-num) * 32767 < (1 - out) * den)

C19_InRangeTruncates ==
    dPc = "worker" =>
        \A i \in 1..Len(dInline) :
            LET num == Interpolated(dInput, dRate, i - 1)
                den == Den * RatioDen(dRate)
            IN (num >= -den /\ num <= den) =>
                  /\ TruncatedTowardZero(dInline[i], num, den)
                  /\ TruncatedTowardZero(dProcessor[i], num, den)
                  /\ TruncatedTowardZero(dWorker[i], num, den)

C19_Witness ==
    /\ dPc = "worker"
    /\ dRate = 48000
    /\ dInput = << -4096, 0, -1 >>
    /\ dInline = << -32767 >>
    /\ dWorker = << -32767 >>

(***************************************************************************)
(* C20: isSilentFrame and SilenceDetector.isBelowThreshold return true     *)
(* exactly when the sum of the squared samples is less than 625 times the  *)
(* sample count (RMS strictly below 25); a non-empty block whose RMS is    *)
(* exactly 25 is not silent.                                               *)
(***************************************************************************)
C20_ThresholdExclusive ==
    pPc # "input" =>
        LET sum == SumOfSquares(pInput, 1)
            n == Len(pInput)
        IN /\ pSilence.isSilentFrame <=> (sum < 625 * n)
           /\ pSilence.isBelowThreshold <=> (sum < 625 * n)
           /\ (n > 0 /\ sum = 625 * n) =>
                  (~pSilence.isSilentFrame /\ ~pSilence.isBelowThreshold)

C20_Witness ==
    /\ pPc = "tested"
    /\ pInput = << 25, -25, 25 >>
    /\ ~pSilence.isSilentFrame
    /\ ~pSilence.isBelowThreshold

(***************************************************************************)
(* C16: removeSilentFrames is a one-shot leading trim: it drops only the   *)
(* frames before the first non-silent frame and keeps every frame from     *)
(* that one on, silent or not.                                             *)
(***************************************************************************)
\* the first frame that is not silent, or FrameCount + 1 when all are
RECURSIVE FirstNonSilent(_, _)
FirstNonSilent(pcm16, k) ==
    IF k > FrameCount(pcm16) \/ ~isSilentFrame(Frame(pcm16, k)) THEN k
    ELSE FirstNonSilent(pcm16, k + 1)

C16_LeadingTrimOnly ==
    pPc = "trimmed" =>
        pTrimmed = SubSeq(pInput, (FirstNonSilent(pInput, 1) - 1) * chunkSize + 1, Len(pInput))

(***************************************************************************)
(* C11: mergeChunks returns one buffer whose length is the sum of the      *)
(* block lengths and in which block k starts at the summed length of the   *)
(* blocks before it, in list order; empty blocks add nothing and the input *)
(* blocks are left as they were.                                           *)
(***************************************************************************)
C11_MergeConcatenates ==
    [][ (wPc = "blocks" /\ wPc' = "merged") =>
           /\ Len(wMerged') = Len(Concat(wBlocks))
           /\ \A k \in 1..Len(wBlocks) : \A j \in 1..Len(wBlocks[k]) :
                  wMerged'[Len(Concat(SubSeq(wBlocks, 1, k - 1))) + j] = wBlocks[k][j]
           /\ wBlocks' = wBlocks ]_vars

C11_Witness ==
    /\ wPc = "merged"
    /\ wBlocks = << << -1, 256 >>, << 32767 >> >>
    /\ wMerged = << -1, 256, 32767 >>

(***************************************************************************)
(* C15: a start() whose getUserMedia fails never enters Recording: it      *)
(* creates no context, no capture callback and no worker and appends no    *)
(* block; if no other start() got the microphone, audioCtx is still null,  *)
(* so the next toggle runs start() again.                                  *)
(***************************************************************************)
\* activation s ended in the rejection of getUserMedia
Denied(s) == pc[s] = "failed" /\ ctxState[s] = "none"

C15_DeniedNeverRecords ==
    /\ \A s \in Sess :
          Denied(s) =>
             /\ audioCtx # s /\ node # s /\ sourceNode # s /\ audioWorker # s
             /\ ~handler[s] /\ ~connected[s] /\ nodeCtx[s] = null
             /\ toWorker[s] = << >> /\ posted[s] = << >>
             /\ \A i \in 1..Len(received) : received[i].sess # s
    /\ (\A s \in 1..nSess : Denied(s) \/ pc[s] = "getUserMedia") =>
          /\ audioCtx = null
          /\ received = << >>
          /\ variant # "worker" => chunks = << >>
          /\ \A s \in Sess : ~Delivers(s)

C15_Witness ==
    /\ nSess = 2
    /\ Denied(1)
    /\ pc[2] = "getUserMedia"
    /\ audioCtx = null

(***************************************************************************)
(* C18: end to end at 48000 Hz with removeSilence off: after k non-silent  *)
(* blocks of n samples each, stop() stores a container whose dataSize is   *)
(* k * floor(n / 3) * 2, and if no input sample exceeds 0.5 in magnitude   *)
(* no stored sample exceeds 16384.                                         *)
(***************************************************************************)
\* the sum of floor(n / 3) over the blocks received from the i-th on
RECURSIVE ExpectedSamples(_)
ExpectedSamples(i) ==
    IF i > Len(received) THEN 0
    ELSE Len(received[i].block) \div 3 + ExpectedSamples(i + 1)

AllNonSilent ==
    \A i \in 1..Len(received) :
        ~isSilentFrame(received[i].data) /\ ~isBelowThreshold(received[i].data)

AllWithinHalf ==
    \A i \in 1..Len(received) : \A j \in 1..Len(received[i].block) :
        received[i].block[j] * 2 <= Den /\ received[i].block[j] * 2 >= -Den

C18_EndToEnd ==
    [][ (/\ variant \in MainThreadVariants
         /\ audioCtx # null /\ audioCtx' = null
         /\ sampleRate[audioCtx] = 48000
         /\ NoneRemoveSilence
         /\ AllNonSilent)
        => /\ getUint32(wavResult', 40) = ExpectedSamples(1) * 2
           /\ Len(wavResult') = 44 + ExpectedSamples(1) * 2
           /\ AllWithinHalf =>
                 \A i \in 1..ExpectedSamples(1) :
                     /\ getInt16(wavResult', 44 + 2 * (i - 1)) <= 16384
                     /\ getInt16(wavResult', 44 + 2 * (i - 1)) >= -16384 ]_vars

C18_Witness ==
    /\ variant = "worklet"
    /\ audioCtx = null
    /\ NoneRemoveSilence
    /\ Len(received) = 2
    /\ received[1].block = << -2048, 1, 0, 2048 >>
    /\ received[2].block = << 1024, 0, 1 >>
    /\ Len(wavResult) = 48
    /\ DataSamples(wavResult) = << -16383, 8191 >>

(***************************************************************************)
(* C17: in the MediaRecorder variant, whenever the stop handler finishes   *)
(* and enables download, wavResult holds a container of at least 44 bytes; *)
(* a recording with no decodable audio gives a zero-sample container       *)
(* (dataSize 0), not a missing result.                                     *)
(***************************************************************************)
C17_StopLeavesContainer ==
    [][ \A s \in Sess :
          (onstop[s] = "converting" /\ onstop'[s] = "done") =>
             /\ ~downloadDisabled'
             /\ Len(wavResult') >= 44
             /\ Decodings(audioBlob[s]) = {} => EmptyContainer(wavResult') ]_vars

(***************************************************************************)
(* C21: the float-scale threshold test of the worker-offloaded variant     *)
(* uses the PCM16 threshold rescaled to full scale 32767: a float block is *)
(* below threshold exactly when RMS * 32767 < 25.                          *)
(***************************************************************************)
\* RMS * 32767 < 25 for samples m / Den: 32767^2 * sum < 625 * Den^2 * n.  With
\* 32767^2 = 2^30 - 2^16 + 1 and both sides divided by 2^16 this is
\* 16383 * sum + sum / 2^16 < 160000 * n, and the fraction of sum / 2^16 cannot
\* decide a comparison with an integer; a sum above 10 n is never below
RmsFullScaleBelow25(samples) ==
    LET sum == SumOfSquares(samples, 1)
        n == Len(samples)
    IN /\ n > 0
       /\ sum <= 10 * n
       /\ 16383 * sum + sum \div 65536 < 160000 * n

C21_FloatThresholdRescaled ==
    dPc = "tested" => (dSilence.isBelowThresholdFloat32 <=> RmsFullScaleBelow25(dInput))

(***************************************************************************)
(* C22: the accumulator is merged once per session and cleared for the     *)
(* next: the worker's recordedChunks is empty after it has handled 'init'  *)
(* and after 'finish', the main-thread variants' chunks is empty when a    *)
(* session enters Recording, and no appended block is encoded into two     *)
(* containers.                                                             *)
(***************************************************************************)
C22_AccumulatorCleared ==
    [][ /\ \A w \in Sess :
              (/\ toWorker[w] # << >>
               /\ Head(toWorker[w]).type \in {"init", "finish"}
               /\ toWorker'[w] = Tail(toWorker[w]))
              => w_recordedChunks'[w] = << >>
        /\ variant \in MainThreadVariants =>
              /\ \A s \in Sess : (pc[s] # "done" /\ pc'[s] = "done") => chunks' = << >>
              /\ (audioCtx # null /\ audioCtx' = null) => inContainer = 0 ]_vars

(***************************************************************************)
(* C23: in the worker-offloaded variant the worker answers each 'process'  *)
(* message with exactly one 'processed' message whose samplesProcessed is  *)
(* the length of the chunk it appended; totalSamples of 'complete' is the  *)
(* sum of samplesProcessed of that session's 'processed' messages; and     *)
(* once all messages of the session's worker are delivered,                *)
(* diagnostics.totalDownsampledSamples equals totalSamples.                *)
(***************************************************************************)
\* worker w takes the message at the head of its queue, of the given type
WorkerTakes(w, type) ==
    /\ toWorker[w] # << >>
    /\ Head(toWorker[w]).type = type
    /\ toWorker'[w] = Tail(toWorker[w])

\* the main thread takes the message at the head of worker w's replies
MainTakes(w, type) ==
    /\ toMain[w] # << >>
    /\ Head(toMain[w]).type = type
    /\ toMain'[w] = Tail(toMain[w])

C23_ProcessedCounts ==
    [][ \A w \in Sess :
          /\ WorkerTakes(w, "process") =>
                /\ Len(w_recordedChunks'[w]) = Len(w_recordedChunks[w]) + 1
                /\ Len(toMain'[w]) = Len(toMain[w]) + 1
                /\ SubSeq(toMain'[w], 1, Len(toMain[w])) = toMain[w]
                /\ toMain'[w][Len(toMain'[w])].type = "processed"
                /\ toMain'[w][Len(toMain'[w])].samples
                      = Len(w_recordedChunks'[w][Len(w_recordedChunks'[w])])
          /\ WorkerTakes(w, "finish") =>
                /\ toMain'[w][Len(toMain'[w])].type = "complete"
                /\ toMain'[w][Len(toMain'[w])].samples = processedSum[w]
          /\ (MainTakes(w, "complete") /\ toMain'[w] = << >> /\ toWorker[w] = << >>) =>
                totalDownsampledSamples' = Head(toMain[w]).samples ]_vars

(***************************************************************************)
(* C26: in the worker-offloaded variant, from the moment start() resets    *)
(* the completion state until the 'complete' message of that same session  *)
(* is handled, isProcessingComplete stays false, finalWavBuffer stays null *)
(* and download stays disabled, also while messages of an earlier          *)
(* session's worker still arrive.                                          *)
(***************************************************************************)
C26_CompletionStateHeld ==
    (variant = "worker" /\ nSess >= 1 /\ ~completeHandled[nSess]) =>
        /\ ~isProcessingComplete
        /\ wavResult = NoBuffer
        /\ downloadDisabled

(***************************************************************************)
(* C24: in the worker-offloaded variant, if posted messages are eventually *)
(* delivered, every stop() of a Recording session is eventually followed   *)
(* by the handling of that session's 'complete' message, and that handling *)
(* leaves isProcessingComplete true, the container in finalWavBuffer and   *)
(* download enabled.                                                       *)
(***************************************************************************)
\* stop() has posted 'finish' to worker w and the worker has not taken it yet
FinishPosted(w) == \E i \in 1..Len(toWorker[w]) : toWorker[w][i].type = "finish"

C24_StopLeadsToComplete ==
    /\ \A w \in Workers : FinishPosted(w) ~> completeHandled[w]
    /\ [][ \A w \in Sess :
              MainTakes(w, "complete") =>
                 /\ completeHandled'[w]
                 /\ isProcessingComplete'
                 /\ wavResult' = Head(toMain[w]).wavBuffer
                 /\ Len(wavResult') >= 44
                 /\ ~downloadDisabled' ]_vars

C24_Witness ==
    /\ variant = "worker"
    /\ audioCtx = null
    /\ \E w \in Sess : completeHandled[w] /\ Len(posted[w]) = 2
    /\ isProcessingComplete
    /\ Len(wavResult) > 44
    /\ ~downloadDisabled

(***************************************************************************)
(* C25: an empty block is handled without error at every stage: the        *)
(* resamplers return an empty block for an empty input and for one shorter *)
(* than the rate ratio, each silence test returns a boolean for an empty   *)
(* block and no division by zero decides it, and merging or encoding an    *)
(* empty block leaves the sample count unchanged.                          *)
(***************************************************************************)
C25_EmptyBlockHandled ==
    /\ \A r \in DspRates :
          /\ downsampleTo16k(<< >>, r) = << >>
          /\ AudioProcessor_downsample(<< >>, r) = << >>
          /\ WorkerConvert(<< >>, r # TARGET_SAMPLE_RATE, r) = << >>
    /\ downsampleTo16k(<< 0, 0 >>, 48000) = << >>
    /\ AudioProcessor_downsample(<< 0, 0 >>, 48000) = << >>
    /\ WorkerConvert(<< 0, 0 >>, TRUE, 48000) = << >>
    /\ mergeChunks(<< << >> >>) = << >>
    /\ mergeChunks(<< << 7 >>, << >>, << -7 >> >>) = << 7, -7 >>
    /\ \A enc \in Encoders : Len(Encode(enc, mergeChunks(<< << >> >>))) = 44
    /\ (pPc # "input" /\ pInput = << >>) =>
          /\ pSilence.isSilent \in BOOLEAN
          /\ pSilence.isSilentFrame \in BOOLEAN
          /\ pSilence.isAbsolutelySilent \in BOOLEAN
          /\ pSilence.isBelowThreshold \in BOOLEAN
          /\ pSilence.rmsDivisor # 0

(***************************************************************************)
(* C27: the code's upper neighbour index min(floor(i * ratio) + 1, n - 1)  *)
(* gives the same interpolated value as the clamped ceil(i * ratio), for   *)
(* every block, source rate and output index; at the integer ratio 3       *)
(* (48000 to 16000) the fractional part is always 0 and output[i] is the   *)
(* quantization of input[3i].                                              *)
(***************************************************************************)
\* the interpolation between floor(i * ratio) and min(ceil(i * ratio), n - 1)
InterpolatedCeil(input, rate, i) ==
    LET p == RatioNum(rate)
        q == RatioDen(rate)
        lo == (i * p) \div q
        hi == Min((i * p + q - 1) \div q, Len(input) - 1)
        fr == (i * p) % q
    IN input[lo + 1] * (q - fr) + input[hi + 1] * fr

C27_NeighbourIsCeil ==
    dPc = "worker" =>
        /\ \A i \in 0..(OutputLength(Len(dInput), dRate) - 1) :
              Interpolated(dInput, dRate, i) = InterpolatedCeil(dInput, dRate, i)
        /\ dRate = 48000 =>
              \A i \in 0..(Len(dInline) - 1) :
                  /\ (i * RatioNum(dRate)) % RatioDen(dRate) = 0
                  /\ dInline[i + 1] = ToInt16(Trunc(dInput[3 * i + 1] * FullScale, Den))
                  /\ dProcessor[i + 1] = ToInt16(Trunc(dInput[3 * i + 1] * FullScale, Den))
                  /\ worker_downsample(dInput, dRate)[i + 1][1] * Den
                        = dInput[3 * i + 1] * worker_downsample(dInput, dRate)[i + 1][2]

C27_Witness ==
    /\ dPc = "worker"
    /\ dRate = 48000
    /\ dInput = << 2048, 4096, -1, -2048, 1, 0, 4 >>
    /\ dInline = << 16383, -16383 >>

(***************************************************************************)
(* C28: the resampler never reads outside its input: for a block of        *)
(* n >= 1 samples and every output index i < floor(n / ratio), the two     *)
(* neighbour indices floor(i * ratio) and min(floor(i * ratio) + 1, n - 1) *)
(* lie in 0..n-1, when downsampling and when upsampling, and they are the  *)
(* samples the interpolation reads.                                        *)
(***************************************************************************)
C28_IndicesInBounds ==
    (dPc = "worker" /\ Len(dInput) >= 1) =>
        \A i \in 0..(OutputLength(Len(dInput), dRate) - 1) :
            LET n == Len(dInput)
                i0 == NeighbourLow(dRate, i)
                i1 == NeighbourHigh(n, dRate, i)
                fr == (i * RatioNum(dRate)) % RatioDen(dRate)
            IN /\ i0 \in 0..(n - 1)
               /\ i1 \in 0..(n - 1)
               /\ Interpolated(dInput, dRate, i)
                     = dInput[i0 + 1] * (RatioDen(dRate) - fr) + dInput[i1 + 1] * fr

C28_Witness ==
    /\ dPc = "worker"
    /\ dRate = 8000
    /\ dInput = << 2048, -1, 4096 >>
    /\ Len(dInline) = 6
    /\ NeighbourLow(dRate, 5) = 2
    /\ NeighbourHigh(3, dRate, 5) = 2

(***************************************************************************)
(* C29: for every input block whose samples lie in [-1, 1] and every       *)
(* source rate, the worker path (downsample to float samples when the rate *)
(* differs from 16000, then float32ToInt16) produces the same PCM16 block  *)
(* as the inline path, which interpolates and quantizes in one step.       *)
(***************************************************************************)
C29_WorkerEqualsInline ==
    (fPc = "worker" /\ \A i \in 1..Len(fInput) : fInput[i] >= -FineDen /\ fInput[i] <= FineDen)
        => fWorker = fInline


(***************************************************************************)
(* C30: in the MediaRecorder variant, the stop handler of a session builds *)
(* its container only from that session's recorded data chunks and stops   *)
(* only the tracks of that session's own microphone stream, never those of *)
(* a later session, even when a new recording was started before the       *)
(* previous session's stop event or WAV conversion has completed.          *)
(***************************************************************************)
C30_StopHandlerOwnSession ==
    [][ \A s \in Sess :
          /\ (onstop[s] = "queued" /\ onstop'[s] = "converting") =>
                \A i \in 1..Len(audioBlob'[s]) : audioBlob'[s][i].sess = s
          /\ (onstop[s] = "converting" /\ onstop'[s] = "done") =>
                \A x \in Sess : (tracksLive[x] /\ ~tracksLive'[x]) => x = s ]_vars

====
